---------------------------- MODULE Spec2Model ----------------------------
(***************************************************************************)
(* Model of connectionParseService.js (guacamole-client, import module):   *)
(* the group path index (getGroupLookups), the group field resolver       *)
(* (getGroupTransformer), the batch fold (parseConnectionData) and the     *)
(* three entry points parseCSV / parseYAML / parseJSON with their          *)
(* promises.  JavaScript strings are TLA+ strings; JavaScript objects are  *)
(* functions whose DOMAIN is the set of their own properties.              *)
(***************************************************************************)
EXTENDS Integers, Sequences, FiniteSets, TLC

VARIABLES
    pc,                 \* position of the call: which callback is awaited
    parsedData,         \* parseCSV's parsed rows, the header row first
    connectionData,     \* the parsed import data handed to parseConnectionData
    transformFunctions, \* the transform functions handed to parseConnectionData
    rootGroup,          \* the tree getConnectionGroupTree resolved with
    lookups,            \* the value deferredGroupLookups resolved with
    promise,            \* the promise the entry point returned
    calls,              \* number of reduce callbacks that have started
    connection,         \* the object last handed to the group transformer
    outcome             \* what the group transformer did with it

vars == <<pc, parsedData, connectionData, transformFunctions, rootGroup, lookups,
          promise, calls, connection, outcome>>

----------------------------------------------------------------------------
(* Bounds of the model. *)

\* Most non-root groups in a tree the resolver is exercised against.
MaxGroups == 3

\* Most non-root groups in a tree a whole batch is run against.
MaxBatchGroups == 1

\* Most records in one batch.
MaxRecords == 2

----------------------------------------------------------------------------
(* JavaScript helpers. *)

\* An own property that is present and not the empty string (a truthy string).
Truthy(object, field) == field \in DOMAIN object /\ object[field] # ""

startsWith(s, prefix) ==
    Len(s) >= Len(prefix) /\ SubSeq(s, 1, Len(prefix)) = prefix

endsWith(s, suffix) ==
    Len(s) >= Len(suffix) /\ SubSeq(s, Len(s) - Len(suffix) + 1, Len(s)) = suffix

\* object[key] = value on an object used as a map.
Put(object, key, value) ==
    [k \in DOMAIN object \cup {key} |-> IF k = key THEN value ELSE object[k]]

EmptyObject == [k \in {} |-> k]

ROOT_GROUP_IDENTIFIER == "ROOT"

ParseError(message, key, variables) ==
    [message |-> message, key |-> key, variables |-> variables]

NoKey == "(none)"

----------------------------------------------------------------------------
(* The group hierarchy the backend returns: nodes                          *)
(* [identifier, name, childConnectionGroups].  A tree of n non-root groups *)
(* is drawn as a parent array (parent[i] < i, 0 is the root) and a name    *)
(* for each group; siblings have distinct names, identifiers are unique.   *)

\* Names of groups: plain ones, one holding a slash, one beginning like the root.
GroupNames == {"a", "b", "a/b", "ROOTS"}

\* The names of the groups in the trees a whole batch is run against.
BatchGroupNames == {"a", "b"}

GroupIdentifiers == <<"g1", "g2", "g3", "g4", "g5">>

RECURSIVE ChildNodes(_, _, _, _, _)
GroupNode(i, parent, names, n) ==
    [identifier |-> IF i = 0 THEN ROOT_GROUP_IDENTIFIER ELSE GroupIdentifiers[i],
     name |-> IF i = 0 THEN "ROOT" ELSE names[i],
     childConnectionGroups |-> ChildNodes(i, i + 1, parent, names, n)]
ChildNodes(i, j, parent, names, n) ==
    IF j > n THEN <<>>
    ELSE IF parent[j] = i
         THEN <<GroupNode(j, parent, names, n)>> \o ChildNodes(i, j + 1, parent, names, n)
         ELSE ChildNodes(i, j + 1, parent, names, n)

ParentArrays(n) == {p \in [1..n -> 0..n] : \A i \in 1..n : p[i] < i}

GroupTrees(groupNames, max) ==
    UNION {
        {GroupNode(0, p, names, n) :
            <<p, names>> \in {pn \in ParentArrays(n) \X [1..n -> groupNames] :
                \A i, j \in 1..n :
                    (i < j /\ pn[1][i] = pn[1][j]) => pn[2][i] # pn[2][j]}}
        : n \in 0..max}

\* Every <<path, identifier>> of a tree: the ancestors' names joined by "/".
RECURSIVE NodePaths(_, _), ChildPaths(_, _)
NodePaths(prefix, group) ==
    {<<prefix \o group.name, group.identifier>>}
        \cup ChildPaths(prefix \o group.name \o "/", group.childConnectionGroups)
ChildPaths(prefix, children) ==
    IF children = <<>> THEN {}
    ELSE NodePaths(prefix, Head(children)) \cup ChildPaths(prefix, Tail(children))

----------------------------------------------------------------------------
(* getGroupLookups: the callback of getConnectionGroupTree(...).then       *)

\* A variant that files each group under its identifier instead of its name.
RECURSIVE saveLookupsByIdentifier(_, _, _), saveChildrenByIdentifier(_, _, _)
saveLookupsByIdentifier(prefix, group, acc) ==
    LET currentPath == prefix \o group.identifier
    IN  saveChildrenByIdentifier(currentPath \o "/", group.childConnectionGroups,
            [groupLookups  |-> Put(acc.groupLookups, currentPath, group.identifier),
             identifierSet |-> acc.identifierSet \cup {group.identifier}])
saveChildrenByIdentifier(nextPrefix, children, acc) ==
    IF children = <<>> THEN acc
    ELSE saveChildrenByIdentifier(nextPrefix, Tail(children),
            saveLookupsByIdentifier(nextPrefix, Head(children), acc))

RECURSIVE saveLookups(_, _, _), forEachChildGroup(_, _, _)
saveLookups(prefix, group, acc) ==
    LET currentPath == prefix \o group.name
        nextPrefix  == currentPath \o "/"
    IN  forEachChildGroup(nextPrefix, group.childConnectionGroups,
            [groupLookups  |-> Put(acc.groupLookups, currentPath, group.identifier),
             identifierSet |-> acc.identifierSet \cup {group.identifier}])
forEachChildGroup(nextPrefix, children, acc) ==
    IF children = <<>> THEN acc
    ELSE forEachChildGroup(nextPrefix, Tail(children),
            saveLookups(nextPrefix, Head(children), acc))

\* The value deferredGroupLookups is resolved with.
groupLookupsOf(root) ==
    saveLookups("", root, [groupLookups |-> EmptyObject, identifierSet |-> {}])

----------------------------------------------------------------------------
(* getGroupTransformer: the transformer connection => connection'.         *)
(* Returned [thrown |-> FALSE, value] or thrown [thrown |-> TRUE, error].  *)

Return(value) == [thrown |-> FALSE, value |-> value]
Throw(error)  == [thrown |-> TRUE, error |-> error]

\* Lines 200-213: the group path made absolute, one trailing slash dropped.
absoluteGroup(group) ==
    LET rooted ==
            IF startsWith(group, "/") THEN ROOT_GROUP_IDENTIFIER \o group
            ELSE IF ~startsWith(group, ROOT_GROUP_IDENTIFIER)
                 THEN ROOT_GROUP_IDENTIFIER \o "/" \o group
                 ELSE group
    IN  IF endsWith(rooted, "/") THEN SubSeq(rooted, 1, Len(rooted) - 1) ELSE rooted

groupTransformer(lk, object) ==
    IF ~Truthy(object, "group")
          /\ (~Truthy(object, "parentIdentifier")
                \/ object.parentIdentifier \in lk.identifierSet)
    THEN Return(object)
    ELSE IF ~Truthy(object, "group")
    THEN Throw(ParseError("No group with identifier: " \o object.parentIdentifier,
                          "IMPORT.ERROR_INVALID_GROUP_IDENTIFIER",
                          [IDENTIFIER |-> object.parentIdentifier]))
    ELSE IF Truthy(object, "parentIdentifier")
    THEN Throw(ParseError("Only one of group or parentIdentifier can be set",
                          "IMPORT.ERROR_AMBIGUOUS_PARENT_GROUP", EmptyObject))
    ELSE LET group == absoluteGroup(object.group)
         IN  IF group \notin DOMAIN lk.groupLookups \/ lk.groupLookups[group] = ""
             THEN Throw(ParseError("No group found named: " \o object.group,
                                   "IMPORT.ERROR_INVALID_GROUP",
                                   [GROUP |-> object.group]))
             ELSE Return(Put(object, "parentIdentifier", lk.groupLookups[group]))


----------------------------------------------------------------------------
(* The import data.  A parsed document is a JavaScript value: an array of  *)
(* entries, or something that is no array (an object, null, a scalar).     *)

Undefined       == [undefined |-> TRUE]
Array(elements) == [array |-> elements]
NotAnArray      == [object |-> EmptyObject]
instanceofArray(value) == "array" \in DOMAIN value
\* value.length, 0 standing for every falsy length (also undefined).
length(value) == IF instanceofArray(value) THEN Len(value.array) ELSE 0

\* Where an import record says its connection goes.
Placements ==
    { [name |-> "c"],
      [name |-> "c", group |-> "a"],
      [name |-> "c", group |-> "a", parentIdentifier |-> "g1"],
      [name |-> "c", parentIdentifier |-> "g1"],
      [name |-> "c", parentIdentifier |-> "zz"] }

\* Whom an import record grants access to.
Grants ==
    { EmptyObject,
      [users |-> <<"alice", "bob">>, groups |-> <<"admins">>],
      [users |-> <<"alice", "alice">>, groups |-> <<"admins", "admins">>] }

ImportRecords ==
    { [f \in DOMAIN p \cup DOMAIN g |-> IF f \in DOMAIN p THEN p[f] ELSE g[f]] :
        p \in Placements, g \in Grants }

SeqsUpTo(S, n) == UNION {[1..k -> S] : k \in 0..n}

\* The header row of a CSV import file and the rows below it.
CsvHeader == <<"name", "group", "parentIdentifier", "users", "groups">>

CsvCell(record, column) ==
    IF column \in DOMAIN record THEN record[column]
    ELSE IF column \in {"users", "groups"} THEN <<>> ELSE ""

CsvRowOf(record) == [i \in 1..Len(CsvHeader) |-> CsvCell(record, CsvHeader[i])]

\* A row with fewer cells than the header has columns.
ShortCsvRow == <<"c">>

CsvRows == {CsvRowOf(r) : r \in ImportRecords} \cup {ShortCsvRow}

\* What the external parsers make of the text handed to an entry point.
SyntaxError == [syntaxError |-> "Unexpected token"]
Parsed(value) == [parsed |-> value]
parseThrows(document) == "syntaxError" \in DOMAIN document

ObjectDocuments ==
    {SyntaxError, Parsed(NotAnArray)}
        \cup {Parsed(Array(records)) : records \in SeqsUpTo(ImportRecords, MaxRecords)}

CsvDocuments ==
    {SyntaxError, Parsed(<<>>)}
        \cup {Parsed(<<CsvHeader>> \o rows) : rows \in SeqsUpTo(CsvRows, MaxRecords)}

----------------------------------------------------------------------------
(* Collaborators of this file that live in other files of the repository.  *)

\* connectionCSVService.getCSVTransformer(header): row => import record.
csvTransformer(row) ==
    IF Len(row) # Len(CsvHeader)
    THEN Throw(ParseError("Invalid CSV row", NoKey, EmptyObject))
    ELSE Return([column \in {CsvHeader[i] : i \in {j \in 1..Len(row) : Len(row[j]) > 0}}
                    |-> row[CHOOSE i \in 1..Len(row) : CsvHeader[i] = column]])

\* new ParseResult(): the empty accumulator.
ParseResult ==
    [patches |-> <<>>, users |-> EmptyObject, groups |-> EmptyObject,
     errors |-> <<>>, hasErrors |-> FALSE]

\* new Connection(template): the connection attributes of the template.
Connection(template) ==
    [f \in DOMAIN template \ {"group", "users", "groups"} |-> template[f]]

\* new DirectoryPatch({op: 'add', path: '/', value}).
DirectoryPatch(value) == [op |-> "add", path |-> "/", value |-> value]

----------------------------------------------------------------------------
(* performBasicChecks and parseConnectionData.                             *)

NoError == [key |-> NoKey, message |-> "", variables |-> EmptyObject]

\* A variant that tests for emptiness before it tests for an array.
performBasicChecksEmptyFirst(data) ==
    IF length(data) = 0
    THEN ParseError("The provided file is empty", "IMPORT.ERROR_EMPTY_FILE", EmptyObject)
    ELSE IF ~instanceofArray(data)
    THEN ParseError("Import data must be a list of connections",
                    "IMPORT.ERROR_ARRAY_REQUIRED", EmptyObject)
    ELSE NoError

\* The ParseError of a failed check, NoError for the undefined of success.
performBasicChecks(data) ==
    IF ~instanceofArray(data)
    THEN ParseError("Import data must be a list of connections",
                    "IMPORT.ERROR_ARRAY_REQUIRED", EmptyObject)
    ELSE IF length(data) = 0
    THEN ParseError("The provided file is empty", "IMPORT.ERROR_EMPTY_FILE", EmptyObject)
    ELSE NoError

\* _.forEach(transformFunctions, transform => ...): undefined is <<>>.
RECURSIVE applyTransforms(_, _)
applyTransforms(transforms, object) ==
    IF transforms = <<>> THEN Return(object)
    ELSE LET result == IF Head(transforms) = "csvTransformer"
                       THEN csvTransformer(object) ELSE Return(object)
         IN  IF result.thrown THEN result
             ELSE applyTransforms(Tail(transforms), result.value)

\* object.users || [] and object.groups || [].
orEmpty(object, field) == IF field \in DOMAIN object THEN object[field] ELSE <<>>

\* A variant that starts a new list for the identifier each time.
addIndexReplacing(grantees, identifier, index) == Put(grantees, identifier, <<index>>)

\* Lines 296-301 and 308-313: push the index, or start a list with it.
addIndex(grantees, identifier, index) ==
    IF identifier \in DOMAIN grantees
    THEN Put(grantees, identifier, Append(grantees[identifier], index))
    ELSE Put(grantees, identifier, <<index>>)

\* identifiers.forEach(identifier => ...) over a record's users or groups.
RECURSIVE forEachIdentifier(_, _, _)
forEachIdentifier(grantees, identifiers, index) ==
    IF identifiers = <<>> THEN grantees
    ELSE forEachIdentifier(addIndex(grantees, Head(identifiers), index),
                           Tail(identifiers), index)

\* A variant that puts the new patch in front.
unshiftPatch(patches, connectionObject) ==
    <<DirectoryPatch(Connection(connectionObject))>> \o patches

\* Lines 317-324.
pushPatch(patches, connectionObject) ==
    Append(patches, DirectoryPatch(Connection(connectionObject)))

\* A variant that records only whether the latest connection had errors.
lastHasErrors(hasErrors, connectionErrors) == connectionErrors # <<>>

\* Lines 327-328.
setHasErrors(hasErrors, connectionErrors) ==
    IF Len(connectionErrors) # 0 THEN TRUE ELSE hasErrors

\* The reduce callback (parseResult, data, index) => parseResult.
reduceCallback(lk, transforms, parseResult, data, index) ==
    LET transformed == applyTransforms(transforms, data)
    IN  IF transformed.thrown THEN transformed
        ELSE
        LET resolved         == groupTransformer(lk, transformed.value)
            connectionErrors == IF resolved.thrown THEN <<resolved.error>> ELSE <<>>
            connectionObject == IF resolved.thrown THEN transformed.value
                                ELSE resolved.value
        IN  Return(
              [patches   |-> pushPatch(parseResult.patches, connectionObject),
               users     |-> forEachIdentifier(parseResult.users,
                                 orEmpty(connectionObject, "users"), index),
               groups    |-> forEachIdentifier(parseResult.groups,
                                 orEmpty(connectionObject, "groups"), index),
               errors    |-> Append(parseResult.errors, connectionErrors),
               hasErrors |-> setHasErrors(parseResult.hasErrors, connectionErrors)])

\* connectionData.reduce(callback, new ParseResult()), indices from 0; the
\* result also counts the callbacks started.
RECURSIVE reduce(_, _, _, _, _)
reduce(lk, transforms, elements, parseResult, index) ==
    IF index = Len(elements)
    THEN [thrown |-> FALSE, value |-> parseResult, calls |-> index]
    ELSE LET step == reduceCallback(lk, transforms, parseResult,
                                    elements[index + 1], index)
         IN  IF step.thrown
             THEN [thrown |-> TRUE, error |-> step.error, calls |-> index + 1]
             ELSE reduce(lk, transforms, elements, step.value, index + 1)

----------------------------------------------------------------------------
(* The promise of one call and the callbacks that settle it.               *)

NoPromise   == [state |-> "none"]
Pending     == [state |-> "pending"]
Resolved(v) == [state |-> "resolved", value |-> v]
Rejected(e) == [state |-> "rejected", error |-> e]

NoLookups == [groupLookups |-> EmptyObject, identifierSet |-> {}]
NoGroup   == [identifier |-> "", name |-> "", childConnectionGroups |-> <<>>]
NoOutcome == [thrown |-> FALSE, value |-> EmptyObject]

Init ==
    /\ pc = "idle"
    /\ parsedData = <<>>
    /\ connectionData = Undefined
    /\ transformFunctions = <<>>
    /\ rootGroup = NoGroup
    /\ lookups = NoLookups
    /\ promise = NoPromise
    /\ calls = 0
    /\ connection = EmptyObject
    /\ outcome = NoOutcome

\* parseConnectionData up to the promise it returns (lines 252-263).
parseConnectionData(data, transforms) ==
    /\ connectionData' = data
    /\ transformFunctions' = transforms
    /\ IF performBasicChecks(data) # NoError
       THEN /\ promise' = Rejected(performBasicChecks(data))
            /\ pc' = "settled"
       ELSE /\ promise' = Pending
            /\ pc' = "getConnectionGroupTree"
    /\ UNCHANGED <<parsedData, rootGroup, lookups, calls, connection, outcome>>

\* The parser threw: reject with an error that has only a message.
rejectSyntaxError(document) ==
    /\ promise' = Rejected(ParseError(document.syntaxError, NoKey, EmptyObject))
    /\ pc' = "settled"
    /\ UNCHANGED <<parsedData, connectionData, transformFunctions, rootGroup, lookups,
                   calls, connection, outcome>>

parseJSON ==
    /\ pc = "idle"
    /\ \E jsonData \in ObjectDocuments :
          IF parseThrows(jsonData) THEN rejectSyntaxError(jsonData)
          ELSE parseConnectionData(jsonData.parsed, <<>>)

parseYAML ==
    /\ pc = "idle"
    /\ \E yamlData \in ObjectDocuments :
          IF parseThrows(yamlData) THEN rejectSyntaxError(yamlData)
          ELSE parseConnectionData(yamlData.parsed, <<>>)

\* parsedData.slice(1): the rows below the header row.
slice1(rows) == IF rows = <<>> THEN <<>> ELSE Tail(rows)

\* parseCSV up to getCSVTransformer(header).then.
parseCSV ==
    /\ pc = "idle"
    /\ \E csvData \in CsvDocuments :
          IF parseThrows(csvData) THEN rejectSyntaxError(csvData)
          ELSE /\ parsedData' = csvData.parsed
               /\ promise' = Pending
               /\ pc' = "getCSVTransformer"
               /\ UNCHANGED <<connectionData, transformFunctions, rootGroup,
                              lookups, calls, connection, outcome>>

\* getCSVTransformer resolved: the callback of lines 375-378.
csvTransformerResolved ==
    /\ pc = "getCSVTransformer"
    /\ parseConnectionData(Array(slice1(parsedData)), <<"csvTransformer">>)

\* getCSVTransformer rejected: the rejection passes through then.
csvTransformerRejected ==
    /\ pc = "getCSVTransformer"
    /\ promise' = Rejected(ParseError("Invalid CSV header", NoKey, EmptyObject))
    /\ pc' = "settled"
    /\ UNCHANGED <<parsedData, connectionData, transformFunctions, rootGroup, lookups,
                   calls, connection, outcome>>

\* getConnectionGroupTree resolved: the callback of lines 112-148.
groupTreeResolved(trees) ==
    /\ pc = "getConnectionGroupTree"
    /\ \E tree \in trees :
          /\ rootGroup' = tree
          /\ lookups' = groupLookupsOf(tree)
    /\ pc' = "getGroupLookups"
    /\ UNCHANGED <<parsedData, connectionData, transformFunctions, promise, calls,
                   connection, outcome>>

\* getConnectionGroupTree rejected: then was given no rejection callback, so
\* deferredGroupLookups is neither resolved nor rejected.
groupTreeRejected ==
    /\ pc = "getConnectionGroupTree"
    /\ pc' = "abandoned"
    /\ UNCHANGED <<parsedData, connectionData, transformFunctions, rootGroup, lookups,
                   promise, calls, connection, outcome>>

\* getGroupLookups resolved: the callback of line 169 returns the transformer.
groupLookupsResolved ==
    /\ pc = "getGroupLookups"
    /\ pc' = "getGroupTransformer"
    /\ UNCHANGED <<parsedData, connectionData, transformFunctions, rootGroup, lookups,
                   promise, calls, connection, outcome>>

\* getGroupTransformer resolved: the callback of lines 263-332 folds the data.
groupTransformerResolved ==
    /\ pc = "getGroupTransformer"
    /\ promise.state = "pending"
    /\ LET result == reduce(lookups, transformFunctions, connectionData.array,
                            ParseResult, 0)
       IN  /\ promise' = IF result.thrown THEN Rejected(result.error)
                         ELSE Resolved(result.value)
           /\ calls' = result.calls
    /\ pc' = "settled"
    /\ UNCHANGED <<parsedData, connectionData, transformFunctions, rootGroup, lookups,
                   connection, outcome>>

BatchTrees == GroupTrees(BatchGroupNames, MaxBatchGroups)

Next ==
    \/ parseCSV
    \/ parseYAML
    \/ parseJSON
    \/ csvTransformerResolved
    \/ csvTransformerRejected
    \/ groupTreeResolved(BatchTrees)
    \/ groupTreeRejected
    \/ groupLookupsResolved
    \/ groupTransformerResolved

Spec == Init /\ [][Next]_vars

\* Every pending callback is eventually run.
FairSpec == Spec /\ WF_vars(Next)


----------------------------------------------------------------------------
(* The group transformer on its own: getGroupTransformer() is called, the  *)
(* tree arrives, and the transformer is applied to one object.             *)

\* The spellings of the group path below the root of a canonical path.
Spellings(path) ==
    LET p == SubSeq(path, Len("ROOT/") + 1, Len(path))
    IN  {p, "/" \o p, "ROOT/" \o p, "ROOT/" \o p \o "/"}

NonRootPaths(root) == {pi \in NodePaths("", root) : pi[2] # root.identifier}

\* The objects the transformer is tried on against a tree.
ConnectionsFor(root) ==
    LET groupValues == UNION {Spellings(pi[1]) : pi \in NonRootPaths(root)}
                           \cup {"", "zz", "ROOT"}
        base == [name |-> "c", users |-> <<"alice">>]
    IN  {base} \cup {Put(base, "group", g) : g \in groupValues}
            \cup {Put(base, "parentIdentifier", i) : i \in {"", "g1", "zz"}}
            \cup {Put(Put(base, "group", g), "parentIdentifier", i) :
                      g \in groupValues, i \in {"g1", "zz"}}

ResolveInit ==
    /\ pc = "getConnectionGroupTree"
    /\ parsedData = <<>>
    /\ connectionData = Undefined
    /\ transformFunctions = <<>>
    /\ rootGroup = NoGroup
    /\ lookups = NoLookups
    /\ promise = NoPromise
    /\ calls = 0
    /\ connection = EmptyObject
    /\ outcome = NoOutcome

\* One call of the transformer the promise resolved with.
transformConnection ==
    /\ pc = "getGroupTransformer"
    /\ promise.state = "none"
    /\ \E object \in ConnectionsFor(rootGroup) :
          /\ connection' = object
          /\ outcome' = groupTransformer(lookups, object)
    /\ pc' = "transformed"
    /\ UNCHANGED <<parsedData, connectionData, transformFunctions, rootGroup,
                   lookups, promise, calls>>

ResolverTrees == GroupTrees(GroupNames, MaxGroups)

ResolveNext ==
    \/ groupTreeResolved(ResolverTrees)
    \/ groupLookupsResolved
    \/ transformConnection

ResolveSpec == ResolveInit /\ [][ResolveNext]_vars

----------------------------------------------------------------------------
(* Properties. *)

\* The lookups of rootGroup are built.
LookupsBuilt == pc \in {"getGroupLookups", "getGroupTransformer", "transformed"}

\* The entry point's promise was resolved with a ParseResult.
BatchResolved == pc = "settled" /\ promise.state = "resolved"

\* Entry i (from 1) of the batch after the transform functions, and what the
\* group transformer makes of it.
adapted(i)   == applyTransforms(transformFunctions, connectionData.array[i])
placement(i) == groupTransformer(lookups, adapted(i).value)

\* Number of places of a sequence that hold x.
Occurrences(seq, x) == Cardinality({k \in 1..Len(seq) : seq[k] = x})

Elements(seq) == {seq[k] : k \in 1..Len(seq)}

\* C1: a batch of n > 0 records whose adapters do not fail resolves with n
\* creation ops and n issue lists, and op i and issue list i are those of
\* record i (a record whose resolution failed still has its op).
C1_OnePerRecord ==
    /\ (pc = "settled" /\ calls > 0
            /\ \A i \in 1..Len(connectionData.array) : ~adapted(i).thrown)
        => promise.state = "resolved"
    /\ BatchResolved =>
        LET n == Len(connectionData.array)
            r == promise.value
        IN  /\ n > 0
            /\ Len(r.patches) = n
            /\ Len(r.errors) = n
            /\ \A i \in 1..n :
                /\ r.patches[i] = DirectoryPatch(Connection(
                        IF placement(i).thrown THEN adapted(i).value
                        ELSE placement(i).value))
                /\ r.errors[i] = IF placement(i).thrown
                                 THEN <<placement(i).error>> ELSE <<>>

\* A resolved batch of two different records, the first failing resolution.
C1_Witness ==
    /\ BatchResolved
    /\ Len(connectionData.array) = 2
    /\ placement(1).thrown
    /\ ~placement(2).thrown
    /\ promise.value.patches[1] # promise.value.patches[2]

\* C2: an object with a group field and a parentIdentifier always fails with
\* IMPORT.ERROR_AMBIGUOUS_PARENT_GROUP, whatever the value of group.
C2_AlwaysAmbiguous ==
    (pc = "transformed" /\ "group" \in DOMAIN connection
        /\ Truthy(connection, "parentIdentifier"))
    => (outcome.thrown /\ outcome.error.key = "IMPORT.ERROR_AMBIGUOUS_PARENT_GROUP")

\* C3 as claimed: every identifier in users (groups) of record i is mapped to
\* a list that holds index i exactly once.
C3_IndexExactlyOnce ==
    BatchResolved =>
        \A i \in 1..Len(connectionData.array) : \A field \in {"users", "groups"} :
            \A identifier \in Elements(orEmpty(adapted(i).value, field)) :
                /\ identifier \in DOMAIN promise.value[field]
                /\ Occurrences(promise.value[field][identifier], i - 1) = 1

\* C3 amended: ... is mapped to a list that holds index i once for each time
\* the record lists the identifier.
C3_IndexOncePerListing ==
    BatchResolved =>
        \A i \in 1..Len(connectionData.array) : \A field \in {"users", "groups"} :
            \A identifier \in Elements(orEmpty(adapted(i).value, field)) :
                /\ identifier \in DOMAIN promise.value[field]
                /\ Occurrences(promise.value[field][identifier], i - 1)
                       = Occurrences(orEmpty(adapted(i).value, field), identifier)

\* Two records naming the same user, one of them failing resolution and
\* listing the user twice.
C3_Witness ==
    /\ BatchResolved
    /\ Len(connectionData.array) = 2
    /\ \E i, j \in 1..2 :
        /\ i # j
        /\ placement(i).thrown
        /\ Occurrences(orEmpty(adapted(i).value, "users"), "alice") = 2
        /\ Occurrences(orEmpty(adapted(j).value, "users"), "alice") = 1

\* No two groups of the tree have the same path.
PathsDistinct(root) ==
    \A x, y \in NodePaths("", root) : x[1] = y[1] => x = y

RoundTrip(root, lk) ==
    /\ \A pi \in NodePaths("", root) :
          pi[1] \in DOMAIN lk.groupLookups /\ lk.groupLookups[pi[1]] = pi[2]
    /\ \A identifier \in lk.identifierSet :
          Cardinality({path \in DOMAIN lk.groupLookups :
                          lk.groupLookups[path] = identifier}) = 1

\* C4 as claimed: on any tree, the path of every group looks up that group,
\* and every known identifier has exactly one path.
C4_RoundTripAnyTree == LookupsBuilt => RoundTrip(rootGroup, lookups)

\* C4 amended: ... on any tree no two groups of which have the same path.
C4_RoundTripDistinctPaths ==
    (LookupsBuilt /\ PathsDistinct(rootGroup)) => RoundTrip(rootGroup, lookups)

\* A tree with a group below a group below the root, all paths distinct.
C4_Witness ==
    /\ LookupsBuilt
    /\ PathsDistinct(rootGroup)
    /\ \E child \in Elements(rootGroup.childConnectionGroups) :
          child.childConnectionGroups # <<>>

\* C5: for a group of canonical path ROOT/p, the group values p, /p, ROOT/p
\* and ROOT/p/ all resolve to that group's identifier.
C5_SpellingsAgree ==
    pc = "transformed" =>
        \A pi \in NonRootPaths(rootGroup) :
            ("group" \in DOMAIN connection
                /\ "parentIdentifier" \notin DOMAIN connection
                /\ connection.group \in Spellings(pi[1]))
            => (~outcome.thrown /\ outcome.value.parentIdentifier = pi[2])

\* The transform functions fail on entry i of the batch.
AdapterFails(i) == adapted(i).thrown

\* C6: when an adapter fails on a record the batch still resolves, with
\* hasErrors set and the failure in that record's issue list.
C6_AdapterFailureFolded ==
    (pc = "settled" /\ calls > 0)
    => \A i \in 1..Len(connectionData.array) :
          AdapterFails(i) =>
              /\ promise.state = "resolved"
              /\ promise.value.hasErrors
              /\ Len(promise.value.errors) = Len(connectionData.array)
              /\ promise.value.errors[i] # <<>>

\* C7: the promise of every call is eventually resolved or rejected.
C7_EventuallySettles ==
    (promise.state = "pending") ~> (promise.state \in {"resolved", "rejected"})

\* parseConnectionData has been called.
Called == connectionData # Undefined

FailedWith(key) ==
    /\ pc = "settled"
    /\ promise.state = "rejected"
    /\ promise.error.key = key
    /\ calls = 0
    /\ rootGroup = NoGroup

\* C8: data that is no array is rejected with IMPORT.ERROR_ARRAY_REQUIRED, an
\* empty array with IMPORT.ERROR_EMPTY_FILE; no entry is transformed, no tree
\* is fetched and the promise is never resolved.
C8_BatchFatal ==
    /\ (Called /\ ~instanceofArray(connectionData))
          => FailedWith("IMPORT.ERROR_ARRAY_REQUIRED")
    /\ (Called /\ instanceofArray(connectionData) /\ connectionData.array = <<>>)
          => FailedWith("IMPORT.ERROR_EMPTY_FILE")

\* parseConnectionData was handed something that is no array.
C8_Witness == Called /\ ~instanceofArray(connectionData) /\ pc = "settled"

\* C9: hasErrors is true exactly if some record's issue list is not empty.
C9_HasErrorsIff ==
    BatchResolved =>
        (promise.value.hasErrors
            <=> \E i \in 1..Len(promise.value.errors) : promise.value.errors[i] # <<>>)

\* A resolved batch whose first record has an issue and whose second has none.
C9_Witness ==
    /\ BatchResolved
    /\ Len(promise.value.errors) = 2
    /\ promise.value.errors[1] # <<>>
    /\ promise.value.errors[2] = <<>>

\* C10: a group that is found, with no parentIdentifier, gives a new object
\* without group, with the identifier found as parentIdentifier and with
\* every other field as it was.
C10_GroupReplaced ==
    (pc = "transformed" /\ Truthy(connection, "group")
        /\ "parentIdentifier" \notin DOMAIN connection
        /\ absoluteGroup(connection.group) \in DOMAIN lookups.groupLookups)
    => /\ ~outcome.thrown
       /\ DOMAIN outcome.value = (DOMAIN connection \ {"group"}) \cup {"parentIdentifier"}
       /\ outcome.value.parentIdentifier
              = lookups.groupLookups[absoluteGroup(connection.group)]
       /\ \A f \in DOMAIN connection \ {"group"} : outcome.value[f] = connection[f]

=============================================================================
